---- MODULE Spec2Model ----
(***************************************************************************)
(* Model of the india-electricians-db repository: the electricians table   *)
(* and DataStorage.save_to_database (src/src/storage.py), the identity key *)
(* (src/src/models.py), the verification endpoint (src/web_app.py) and the *)
(* phone extractors (src/src/scrapers/__init__.py and the city scripts),   *)
(* the ProxyManager (src/src/proxy_manager.py), make_request               *)
(* (src/scrape_with_proxy.py) and the ScraperOrchestrator (src/main.py).   *)
(*                                                                         *)
(* Conventions.  A Python string the code inspects character by character  *)
(* (phone, city, state, text) is a tuple of one-character strings.  An     *)
(* Optional value is None == <<>> or Some(v) == <<v>>.  A Float rating r   *)
(* is the integer 10*r.  A datetime is a natural number of clock ticks.    *)
(***************************************************************************)
EXTENDS Integers, Sequences, FiniteSets, TLC

VARIABLES
    db,        \* the committed rows of table "electricians"
    now,       \* the wall clock read by datetime.utcnow()
    last,      \* the last finished request: what was called and what it gave
    procs,     \* per process: position and session of a running save_to_database
    text,      \* phone extraction: the input text
    phones,    \* phone extraction: the result of each extractor
    ppc,       \* phone extraction: "input" before the call, "done" after
    pm,        \* the ProxyManager and the Proxy objects of its pool
    gets,      \* the latest get_proxy calls: what each returned from which pool
    orch       \* the run of the ScraperOrchestrator

vars == <<db, now, last, procs, text, phones, ppc, pm, gets, orch>>

-----------------------------------------------------------------------------
(* Bounds *)
MaxBatch == 2
MaxClock == 1
MaxChunks == 2
MaxRowId == 4
MaxFailures == 2
MaxSuccess == 1
MaxRetries == 2

-----------------------------------------------------------------------------
(* Python values *)
None == <<>>
Some(v) == <<v>>

TruthyStr(o) == o # None /\ o[1] # ""
TruthyNum(o) == o # None /\ o[1] # 0

AsciiDigits == {"0", "1", "2", "3", "4", "5", "6", "7", "8", "9"}
\* str.isdigit and \d also accept the decimal digits of other scripts;
\* "U+096B" stands for the one character DEVANAGARI DIGIT FIVE.
UnicodeDigits == {"U+096B"}
Digit6to9 == {"6", "7", "8", "9"}
Whitespace == {" "}

isdigit(c) == c \in AsciiDigits \cup UnicodeDigits

UpperCase == <<"A", "B", "C", "D", "E", "F", "G", "H", "I", "J", "K", "L", "M",
               "N", "O", "P", "Q", "R", "S", "T", "U", "V", "W", "X", "Y", "Z">>
LowerCase == <<"a", "b", "c", "d", "e", "f", "g", "h", "i", "j", "k", "l", "m",
               "n", "o", "p", "q", "r", "s", "t", "u", "v", "w", "x", "y", "z">>

lowerChar(c) ==
    IF \E i \in 1..26 : UpperCase[i] = c
    THEN LowerCase[CHOOSE i \in 1..26 : UpperCase[i] = c]
    ELSE c

lower(s) == [i \in 1..Len(s) |-> lowerChar(s[i])]

\* s[-n:]
LastN(s, n) == IF Len(s) <= n THEN s ELSE SubSeq(s, Len(s) - n + 1, Len(s))

\* "".join(filter(str.isdigit, s))
DigitsOf(s) == SelectSeq(s, isdigit)

Max(S) == CHOOSE x \in S : \A y \in S : y <= x
Min(S) == CHOOSE x \in S : \A y \in S : x <= y

-----------------------------------------------------------------------------
(* src/src/models.py *)

\* get_unique_key without .lower() on the city
get_unique_key_nolower(e) ==
    LET phone_normalized == LastN(DigitsOf(e.phone), 10)
    IN  phone_normalized \o <<"_">> \o e.city \o <<"_">> \o lower(e.state)

get_unique_key(e) ==
    LET phone_normalized == LastN(DigitsOf(e.phone), 10)
    IN  phone_normalized \o <<"_">> \o lower(e.city) \o <<"_">> \o lower(e.state)

-----------------------------------------------------------------------------
(* src/src/storage.py: the row type *)

\* json.dumps of a list of strings, as its sequence of tokens
json_dumps(l) ==
    LET RECURSIVE items(_)
        items(i) == IF i > Len(l) THEN <<>>
                    ELSE (IF i > 1 THEN <<", ">> ELSE <<>>) \o <<"\"", l[i], "\"">> \o items(i + 1)
    IN  <<"[">> \o items(1) \o <<"]">>

\* datetime.fromisoformat of the candidate's isoformat() stamp
fromisoformat(s) == s[1]

\* from_electrician leaving "verified" to the column default
from_electrician_unverified(e, utcnow) ==
    [ name             |-> e.name,
      phone            |-> e.phone,
      city             |-> e.city,
      state            |-> e.state,
      address          |-> e.address,
      website          |-> e.website,
      services         |-> IF e.services # <<>> THEN Some(json_dumps(e.services)) ELSE None,
      rating           |-> e.rating,
      review_count     |-> e.review_count,
      source           |-> e.source,
      source_url       |-> e.source_url,
      verified         |-> FALSE,
      scraped_at       |-> IF e.scraped_at # None THEN fromisoformat(e.scraped_at) ELSE utcnow,
      unique_key       |-> get_unique_key(e),
      category         |-> None,
      smart_meter_score |-> 0,
      verified_by      |-> None,
      verified_at      |-> None ]

\* ElectricianDB.from_electrician plus the column defaults applied on INSERT;
\* the row has no id until it is flushed.
from_electrician(e, utcnow) ==
    [ name             |-> e.name,
      phone            |-> e.phone,
      city             |-> e.city,
      state            |-> e.state,
      address          |-> e.address,
      website          |-> e.website,
      services         |-> IF e.services # <<>> THEN Some(json_dumps(e.services)) ELSE None,
      rating           |-> e.rating,
      review_count     |-> e.review_count,
      source           |-> e.source,
      source_url       |-> e.source_url,
      verified         |-> e.verified,
      scraped_at       |-> IF e.scraped_at # None THEN fromisoformat(e.scraped_at) ELSE utcnow,
      unique_key       |-> get_unique_key(e),
      category         |-> None,
      smart_meter_score |-> 0,
      verified_by      |-> None,
      verified_at      |-> None ]

WithId(row, id) == [f \in DOMAIN row \cup {"id"} |-> IF f = "id" THEN id ELSE row[f]]

\* nullable=False columns
NotNullViolation(row) == row.name = None

\* the table without the unique constraint
UniqueViolation_off(row, others) == FALSE

\* the unique constraint put on the phone column
UniqueViolation_phone(row, others) == \E o \in others : o.phone = row.phone

\* unique=True on unique_key: the row cannot join the rows of others
UniqueViolation(row, others) == \E o \in others : o.unique_key = row.unique_key

\* INTEGER PRIMARY KEY: the next rowid is one more than the largest in the table
NextRowId(rows) == IF rows = {} THEN 1 ELSE Max({r.id : r \in rows}) + 1

-----------------------------------------------------------------------------
(* src/src/storage.py: the session of one save_to_database call *)

\* new: rows added and not committed; loaded/cur: the rows read from the
\* table as they were loaded and as the call changed them; outcomes: what
\* the loop did with each candidate so far.
NewSession ==
    [ new |-> <<>>, loaded |-> <<>>, cur |-> <<>>, ids |-> {},
      saved_count |-> 0, outcomes |-> <<>> ]

\* loaded and cur are sequences of rows; ids is the set of their row ids
SessIdx(sess, id) == CHOOSE i \in 1..Len(sess.cur) : sess.cur[i].id = id

\* QueryFirst of a session without autoflush: pending rows are not seen
QueryFirst_noflush(sess, cdb, k) ==
    LET hit == {r.id : r \in {x \in cdb : x.unique_key = k}}
    IN  IF hit # {} THEN [kind |-> "row", id |-> Min(hit)]
        ELSE [kind |-> "none"]

\* QueryFirst that looks among the rows of its own session only
QueryFirst_own(sess, cdb, k) ==
    LET pend == {i \in 1..Len(sess.new) : sess.new[i].unique_key = k}
    IN  IF pend # {} THEN [kind |-> "new", idx |-> Min(pend)]
        ELSE [kind |-> "none"]

\* session.query(ElectricianDB).filter_by(unique_key=k).first(): the pending
\* rows are flushed first, so the query sees them beside the committed rows
QueryFirst(sess, cdb, k) ==
    LET hit == {r.id : r \in {x \in cdb : x.unique_key = k}}
        pend == {i \in 1..Len(sess.new) : sess.new[i].unique_key = k}
    IN  IF hit # {} THEN [kind |-> "row", id |-> Min(hit)]
        ELSE IF pend # {} THEN [kind |-> "new", idx |-> Min(pend)]
        ELSE [kind |-> "none"]

\* MergeInto with "verified" among the merged keys
MergeInto_verified(existing, e, utcnow) ==
    LET db_record == from_electrician(e, utcnow)
    IN  [existing EXCEPT
            !.name         = IF TruthyStr(db_record.name) THEN db_record.name ELSE @,
            !.address      = IF TruthyStr(db_record.address) THEN db_record.address ELSE @,
            !.rating       = IF TruthyNum(db_record.rating) THEN db_record.rating ELSE @,
            !.review_count = IF TruthyNum(db_record.review_count) THEN db_record.review_count ELSE @,
            !.source_url   = IF TruthyStr(db_record.source_url) THEN db_record.source_url ELSE @,
            !.verified     = db_record.verified,
            !.scraped_at   = utcnow]

\* MergeInto without the "if getattr(db_record, key)" test
MergeInto_unconditional(existing, e, utcnow) ==
    LET db_record == from_electrician(e, utcnow)
    IN  [existing EXCEPT
            !.name         = db_record.name,
            !.address      = db_record.address,
            !.rating       = db_record.rating,
            !.review_count = db_record.review_count,
            !.source_url   = db_record.source_url,
            !.scraped_at   = utcnow]

\* MergeInto adding the candidate's review_count to the stored one
MergeInto_accumulate(existing, e, utcnow) ==
    LET db_record == from_electrician(e, utcnow)
    IN  [existing EXCEPT
            !.name         = IF TruthyStr(db_record.name) THEN db_record.name ELSE @,
            !.address      = IF TruthyStr(db_record.address) THEN db_record.address ELSE @,
            !.rating       = IF TruthyNum(db_record.rating) THEN db_record.rating ELSE @,
            !.review_count = IF TruthyNum(db_record.review_count)
                             THEN (IF TruthyNum(@) THEN Some(@[1] + db_record.review_count[1])
                                   ELSE db_record.review_count)
                             ELSE @,
            !.source_url   = IF TruthyStr(db_record.source_url) THEN db_record.source_url ELSE @,
            !.scraped_at   = utcnow]

\* MergeInto that marks the record verified when the candidate is
MergeInto_promote(existing, e, utcnow) ==
    LET db_record == from_electrician(e, utcnow)
    IN  [existing EXCEPT
            !.name         = IF TruthyStr(db_record.name) THEN db_record.name ELSE @,
            !.address      = IF TruthyStr(db_record.address) THEN db_record.address ELSE @,
            !.rating       = IF TruthyNum(db_record.rating) THEN db_record.rating ELSE @,
            !.review_count = IF TruthyNum(db_record.review_count) THEN db_record.review_count ELSE @,
            !.source_url   = IF TruthyStr(db_record.source_url) THEN db_record.source_url ELSE @,
            !.verified     = @ \/ db_record.verified,
            !.scraped_at   = utcnow]

\* lines 203-207: the fields an existing record takes from the candidate
MergeInto(existing, e, utcnow) ==
    LET db_record == from_electrician(e, utcnow)
    IN  [existing EXCEPT
            !.name         = IF TruthyStr(db_record.name) THEN db_record.name ELSE @,
            !.address      = IF TruthyStr(db_record.address) THEN db_record.address ELSE @,
            !.rating       = IF TruthyNum(db_record.rating) THEN db_record.rating ELSE @,
            !.review_count = IF TruthyNum(db_record.review_count) THEN db_record.review_count ELSE @,
            !.source_url   = IF TruthyStr(db_record.source_url) THEN db_record.source_url ELSE @,
            !.scraped_at   = utcnow]

\* ProcessFound that updates whatever update_existing says
ProcessFound_always(sess, cdb, e, update_existing, utcnow, existing) ==
        IF existing.kind = "row" THEN
            IF existing.id \in sess.ids THEN
                LET i == SessIdx(sess, existing.id)
                IN  [sess EXCEPT !.cur[i] = MergeInto(@, e, utcnow),
                                 !.outcomes = Append(@, "Updated")]
            ELSE
                LET row == CHOOSE r \in cdb : r.id = existing.id
                IN  [sess EXCEPT !.loaded = Append(@, row),
                                 !.cur = Append(@, MergeInto(row, e, utcnow)),
                                 !.ids = @ \cup {row.id},
                                 !.outcomes = Append(@, "Updated")]
        ELSE IF existing.kind = "new" THEN
            [sess EXCEPT !.new[existing.idx] = MergeInto(@, e, utcnow),
                         !.outcomes = Append(@, "Updated")]
        ELSE
            [sess EXCEPT !.new = Append(@, from_electrician(e, utcnow)),
                         !.saved_count = @ + 1,
                         !.outcomes = Append(@, "Inserted")]

\* one iteration of the loop of save_to_database (lines 194-212), given the
\* result of the query
ProcessFound(sess, cdb, e, update_existing, utcnow, existing) ==
        IF existing.kind = "row" THEN
            IF update_existing THEN
                IF existing.id \in sess.ids THEN
                    LET i == SessIdx(sess, existing.id)
                    IN  [sess EXCEPT !.cur[i] = MergeInto(@, e, utcnow),
                                     !.outcomes = Append(@, "Updated")]
                ELSE
                    LET row == CHOOSE r \in cdb : r.id = existing.id
                    IN  [sess EXCEPT !.loaded = Append(@, row),
                                     !.cur = Append(@, MergeInto(row, e, utcnow)),
                                     !.ids = @ \cup {row.id},
                                     !.outcomes = Append(@, "Updated")]
            ELSE [sess EXCEPT !.outcomes = Append(@, "Skipped")]
        ELSE IF existing.kind = "new" THEN
            IF update_existing THEN
                [sess EXCEPT !.new[existing.idx] = MergeInto(@, e, utcnow),
                             !.outcomes = Append(@, "Updated")]
            ELSE [sess EXCEPT !.outcomes = Append(@, "Skipped")]
        ELSE
            [sess EXCEPT !.new = Append(@, from_electrician(e, utcnow)),
                         !.saved_count = @ + 1,
                         !.outcomes = Append(@, "Inserted")]

ProcessOne(sess, cdb, e, update_existing, utcnow) ==
    CHOOSE r \in { ProcessFound(sess, cdb, e, update_existing, utcnow, existing) :
                    existing \in {QueryFirst(sess, cdb, get_unique_key(e))} } : TRUE

\* the for loop over the whole list (a value bound by "\in {v}" is computed
\* once, here and below)
RECURSIVE RunBatch(_, _, _, _, _, _)
RunBatch(sess, cdb, electricians, i, update_existing, utcnow) ==
    IF i > Len(electricians) THEN sess
    ELSE CHOOSE r \in { RunBatch(s2, cdb, electricians, i + 1, update_existing, utcnow) :
                         s2 \in {ProcessOne(sess, cdb, electricians[i], update_existing, utcnow)} } : TRUE

\* session.commit() raises IntegrityError when a pending row breaks a
\* constraint of the table as committed by then
RECURSIVE CommitRaises(_, _, _)
CommitRaises(new, i, rows) ==
    IF i > Len(new) THEN FALSE
    ELSE \/ NotNullViolation(new[i])
         \/ UniqueViolation(new[i], rows)
         \/ \E rows2 \in {rows \cup {new[i]}} : CommitRaises(new, i + 1, rows2)

\* UPDATE writes the columns whose value the call changed
Flushed(row, loaded, cur) ==
    [f \in DOMAIN row |-> IF cur[f] # loaded[f] THEN cur[f] ELSE row[f]]

RECURSIVE InsertAll(_, _, _)
InsertAll(rows, new, i) ==
    IF i > Len(new) THEN rows
    ELSE CHOOSE r \in { InsertAll(rows2, new, i + 1) :
                         rows2 \in {rows \cup {WithId(new[i], NextRowId(rows))}} } : TRUE

\* the table after a successful commit
Committed(sess, cdb) ==
    LET updated == { IF r.id \in sess.ids
                     THEN Flushed(r, sess.loaded[SessIdx(sess, r.id)], sess.cur[SessIdx(sess, r.id)])
                     ELSE r : r \in cdb }
    IN  InsertAll(updated, sess.new, 1)

\* a failed call whose pending rows that break no constraint stay stored
RolledBack_partial(sess, cdb) ==
    InsertAll(cdb, SelectSeq(sess.new, LAMBDA r : ~NotNullViolation(r) /\ ~UniqueViolation(r, cdb)), 1)

\* lines 216-218: session.rollback() drops everything the call did
RolledBack(sess, cdb) == cdb

-----------------------------------------------------------------------------
(* Inputs: the candidates (Electrician objects) the scrapers hand over *)

P1plain == <<"9", "8", "2", "5", "0", "1", "2", "3", "4", "5">>
P1intl  == <<"+", "9", "1", " ", "9", "8", "2", "5", "0", " ", "1", "2", "3", "4", "5">>
P1zero  == <<"0">> \o P1plain
P2plain == <<"9", "8", "7", "6", "5", "4", "3", "2", "1", "0">>
P3plain == <<"7", "0", "1", "2", "3", "4", "5", "6", "7", "8">>
P4plain == <<"6", "1", "2", "3", "4", "5", "6", "7", "8", "9">>
PFake   == <<"9", "9", "9", "9", "9", "9", "9", "9", "9", "9">>

Surat   == <<"S", "u", "r", "a", "t">>
surat   == <<"s", "u", "r", "a", "t">>
Kakod   == <<"K", "a", "k", "o", "d">>
Gujarat == <<"G", "u", "j", "a", "r", "a", "t">>
UP      == <<"U", "P">>

\* Electrician(name, phone, city, state) with the dataclass defaults; the
\* default scraped_at is the isoformat() of the local time of creation
Electrician(name, phone, city, state) ==
    [ name |-> Some(name), phone |-> phone, city |-> city, state |-> state,
      address |-> None, website |-> None, services |-> <<>>,
      rating |-> None, review_count |-> None,
      source |-> "justdial", source_url |-> None,
      scraped_at |-> Some(1), verified |-> FALSE ]

\* Scenario A of the specification
cA  == Electrician("Patel Electric", P1intl, Surat, Gujarat)
\* Scenario B: the same with an address
cB  == [cA EXCEPT !.address = Some("Ring Road")]
\* Scenario D: verified, then unverified under another name
cD1 == [Electrician("Patel Electric", P1plain, surat, Gujarat) EXCEPT
            !.verified = TRUE, !.rating = Some(45), !.review_count = Some(10),
            !.source_url = Some("https://jd/1"), !.services = <<"wiring">>,
            !.source = "verified"]
cD2 == [Electrician("Patel and Sons", P1zero, Surat, Gujarat) EXCEPT
            !.rating = Some(0), !.review_count = Some(0), !.address = Some(""),
            !.scraped_at = None]
cK  == [Electrician("Shah Electricals", P2plain, Kakod, UP) EXCEPT
            !.rating = Some(40), !.scraped_at = Some(2)]
\* Scenario C: a phone that is not a valid mobile number
cX  == Electrician("Fake", PFake, Surat, Gujarat)
\* a candidate without the required name
cN  == [Electrician("x", P2plain, Kakod, UP) EXCEPT !.name = None]
cK3 == Electrician("Three", P3plain, Surat, Gujarat)
cK4 == Electrician("Four", P4plain, Kakod, UP)
\* the phone of cD1 recorded under another city
cS  == [Electrician("Patel Electric", P1plain, Kakod, UP) EXCEPT !.rating = Some(40)]
\* and once more, unverified, with the best rating of the three
cH  == [Electrician("Patel Electric", P1plain, Surat, UP) EXCEPT !.rating = Some(50)]

\* the candidates by name; a call is recorded by the names of its candidates
Cand ==
    [ cA |-> cA, cB |-> cB, cD1 |-> cD1, cD2 |-> cD2,
      cK |-> cK, cX |-> cX, cN |-> cN, cK3 |-> cK3, cK4 |-> cK4, cS |-> cS, cH |-> cH ]

Electricians(names) == [i \in 1..Len(names) |-> Cand[names[i]]]

SeqsUpTo(S, n) == UNION {[1..k -> S] : k \in 0..n}

\* single upserts: one valid key in several written forms
Candidates == {"cA", "cB", "cD1", "cD2"}

\* batches: the batch of 5 of the specification (3 candidates on the 2
\* stored keys of cB and cK, 2 candidates on new keys), the candidates cK
\* and cD2 alone, and every list of at most MaxBatch candidates over two
\* keys, one of them an invalid phone
Batch5 == <<"cB", "cK", "cD2", "cK3", "cK4">>
BatchCandidates == {"cB", "cX"}
Batches ==
    SeqsUpTo(BatchCandidates, MaxBatch) \cup {<<"cK">>, <<"cD2">>, Batch5, <<"cA", "cB">>}

-----------------------------------------------------------------------------
(* Sequential use: one caller at a time *)

NoCall == [op |-> "none"]

\* the two processes that may run save_to_database at the same time
Procs == {"p1", "p2"}

\* raised and conflict describe the end of the call: whether the commit
\* raised and for which keys; retry and prev say whether the call repeats the
\* call before of the process, which raised, and for which keys that one did
IdleProc ==
    [ pc |-> "idle", batch |-> <<>>, i |-> 1, sess |-> NewSession,
      start |-> {}, raised |-> FALSE, conflict |-> {},
      retry |-> FALSE, prev |-> {} ]

IdleProcs == [p \in Procs |-> IdleProc]

\* ProxyManager(): no proxies, round_robin
NoManager ==
    [ proxies |-> <<>>, rotation_strategy |-> "round_robin", max_failures |-> 5,
      objs |-> <<>> ]

\* no orchestrator was started
NoRun == [pc |-> "off"]

InitStore ==
    /\ db = {}
    /\ now = 0
    /\ last = NoCall
    /\ procs = IdleProcs
    /\ text = <<>>
    /\ phones = <<>>
    /\ ppc = "off"
    /\ pm = NoManager
    /\ gets = <<>>
    /\ orch = NoRun

\* Returned counting every processed candidate
Returned_all(sess) == [Inserted |-> Len(sess.outcomes)]

\* the value save_to_database returns: the count of inserted rows
Returned(sess) == [Inserted |-> sess.saved_count]

\* DataStorage.save_to_database(electricians, update_existing), run alone;
\* "repeat" notes that the call before was the same call
SaveToDatabase(names, update_existing) ==
    \E sess \in {RunBatch(NewSession, db, Electricians(names), 1, update_existing, now)} :
    LET raised == CommitRaises(sess.new, 1, db)
    IN  /\ db' = IF raised THEN RolledBack(sess, db) ELSE Committed(sess, db)
        /\ last' = [ op |-> "save_to_database", batch |-> names,
                     update_existing |-> update_existing, raised |-> raised,
                     repeat |-> /\ last.op = "save_to_database"
                                /\ last.batch = names
                                /\ last.update_existing = update_existing,
                     ret |-> IF raised THEN None ELSE Some(Returned(sess)),
                     outcomes |-> sess.outcomes ]
        /\ UNCHANGED <<now, procs, text, phones, ppc, pm, gets, orch>>

\* POST /api/electrician/<id>/verify (web_app.py)
update_verification(id, verified, verified_by) ==
    /\ IF \E r \in db : r.id = id
       THEN db' = { IF r.id = id
                    THEN [r EXCEPT !.verified = verified,
                                   !.verified_by = Some(verified_by),
                                   !.verified_at = IF verified THEN Some(now) ELSE None]
                    ELSE r : r \in db }
       ELSE db' = db
    /\ last' = [ op |-> "update_verification", id |-> id,
                 found |-> \E r \in db : r.id = id ]
    /\ UNCHANGED <<now, procs, text, phones, ppc, pm, gets, orch>>

\* time passes
Tick ==
    /\ now < MaxClock
    /\ now' = now + 1
    /\ UNCHANGED <<db, last, procs, text, phones, ppc, pm, gets, orch>>

\* upsert(candidate): a call with one candidate
Upsert == \E c \in Candidates, u \in BOOLEAN : SaveToDatabase(<<c>>, u)

Verify ==
    \E id \in {r.id : r \in db} \cup {NextRowId(db)}, v \in BOOLEAN :
        update_verification(id, v, "User")

Next == Upsert \/ Verify \/ Tick

Spec == InitStore /\ [][Next]_vars

\* batch upsert with the default update_existing
SaveBatch == \E b \in Batches : SaveToDatabase(b, TRUE)

NextBatch == SaveBatch

SpecBatch == InitStore /\ [][NextBatch]_vars

-----------------------------------------------------------------------------
(* Concurrent use: two processes, each in its own session and transaction. *)
(* A process reads the committed table and its own pending rows; what it   *)
(* writes reaches the table at its commit, where the constraints of the    *)
(* table decide (a conflict the database reports earlier, at a flush or as *)
(* a lock timeout, ends the call the same way: exception and rollback).    *)

ConcCandidates == {"cA", "cD1", "cX"}
ConcBatches ==
    {<<c>> : c \in ConcCandidates} \cup {<<"cA", "cX">>, <<"cX", "cD1">>, <<"cX", "cN">>}

StoredKeys == {r.unique_key : r \in db}

\* line 190: a call starts; "start" notes the keys stored at that time
Begin(p, names) ==
    /\ procs[p].pc \in {"idle", "done"}
    /\ procs' = [procs EXCEPT ![p] =
                    [ pc |-> "loop", batch |-> names, i |-> 1, sess |-> NewSession,
                      start |-> StoredKeys, raised |-> FALSE, conflict |-> {},
                      retry |-> procs[p].raised /\ procs[p].batch = names,
                      prev |-> IF procs[p].raised /\ procs[p].batch = names
                               THEN procs[p].conflict ELSE {} ]]
    /\ UNCHANGED <<db, now, last, text, phones, ppc, pm, gets, orch>>

\* lines 194-212: one iteration of the loop
LoopStep(p) ==
    /\ procs[p].pc = "loop"
    /\ procs[p].i <= Len(procs[p].batch)
    /\ procs' = [procs EXCEPT
                    ![p].sess = ProcessOne(@, db, Cand[procs[p].batch[procs[p].i]], TRUE, now),
                    ![p].i = @ + 1]
    /\ UNCHANGED <<db, now, last, text, phones, ppc, pm, gets, orch>>

\* lines 214-222: commit, or rollback and raise
CommitStep(p) ==
    /\ procs[p].pc = "loop"
    /\ procs[p].i > Len(procs[p].batch)
    /\ LET raised == CommitRaises(procs[p].sess.new, 1, db)
       IN  /\ db' = IF raised THEN RolledBack(procs[p].sess, db)
                              ELSE Committed(procs[p].sess, db)
           /\ procs' = [procs EXCEPT
                           ![p].pc = "done", ![p].raised = raised,
                           ![p].conflict =
                               {procs[p].sess.new[i].unique_key : i \in 1..Len(procs[p].sess.new)}
                               \cap StoredKeys]
    /\ UNCHANGED <<now, last, text, phones, ppc, pm, gets, orch>>

ConcBegin == \E p \in Procs, b \in ConcBatches : Begin(p, b)
ConcLoop == \E p \in Procs : LoopStep(p)
ConcCommit == \E p \in Procs : CommitStep(p)

NextConc == ConcBegin \/ ConcLoop \/ ConcCommit

SpecConc == InitStore /\ [][NextConc]_vars

-----------------------------------------------------------------------------
(* Properties of the upsert *)

\* the step is a finished save_to_database call, described by last'
SaveTaken == last'.op = "save_to_database" /\ now' = now

RowById(rows, id) == CHOOSE r \in rows : r.id = id

MergedStrFields == {"name", "address", "source_url"}
MergedNumFields == {"rating", "review_count"}
OtherFields ==
    {"id", "phone", "city", "state", "website", "services", "source", "verified",
     "unique_key", "category", "smart_meter_score", "verified_by", "verified_at"}

\* is_valid_phone of scrape_surat_verified.py
is_valid_phone(phone) ==
    /\ Len(phone) = 10
    /\ phone[1] \in Digit6to9
    /\ Cardinality({phone[i] : i \in 1..Len(phone)}) >= 4

\* the phone of a candidate normalizes to a valid 10-digit mobile number
NormalizesToValid(phone) == is_valid_phone(LastN(DigitsOf(phone), 10))

\* C3: monotonic verification.  A save_to_database call leaves every stored
\* record that has verified = true stored and verified, with verified_by and
\* verified_at as they were; and a single upsert (update_existing as by default)
\* of a candidate whose key is that of a verified record is an Updated, which
\* adds nothing to the returned count.
T_C3_MonotonicVerification ==
    [][ SaveTaken =>
          /\ \A r \in db : r.verified =>
                \E r2 \in db' : /\ r2.id = r.id
                                /\ r2.verified
                                /\ r2.verified_by = r.verified_by
                                /\ r2.verified_at = r.verified_at
          /\ \A c \in Candidates :
                ( /\ last'.batch = <<c>>
                  /\ last'.update_existing
                  /\ \E r \in db : r.verified /\ r.unique_key = get_unique_key(Cand[c]) )
                => /\ last'.outcomes = <<"Updated">>
                   /\ last'.ret = Some([Inserted |-> 0]) ]_vars

\* Scenario D: a record verified through the endpoint was updated by the
\* unverified candidate cD2, which changed its name
W_C3_VerifiedRecordUpdated ==
    /\ last.op = "save_to_database"
    /\ last.batch = <<"cD2">>
    /\ last.outcomes = <<"Updated">>
    /\ \E r \in db : /\ r.verified
                     /\ r.verified_by = Some("User")
                     /\ r.verified_at # None
                     /\ r.name = Some("Patel and Sons")
                     /\ r.unique_key = get_unique_key(cD2)

\* C5 as stated: the same single upsert made twice in a row leaves the store
\* after the second call as it was after the first, no field differing.
D_C5_NoFieldDiffers ==
    [][ (SaveTaken /\ last'.repeat /\ Len(last'.batch) = 1) => db' = db ]_vars

\* C5 amended: the same single upsert made twice in a row leaves every stored
\* record after the second call as it was after the first in every field but
\* scraped_at, adds and removes no record, and the second call is not an
\* Inserted.
T_C5_IdempotentButTimestamp ==
    [][ (SaveTaken /\ last'.repeat /\ Len(last'.batch) = 1) =>
          /\ {r.id : r \in db'} = {r.id : r \in db}
          /\ \A r \in db :
                [RowById(db', r.id) EXCEPT !.scraped_at = r.scraped_at] = r
          /\ last'.outcomes # <<"Inserted">> ]_vars

\* the candidate cA was upserted twice in a row and the second call updated
\* the record it had inserted, moving scraped_at from the candidate's stamp
W_C5_SecondUpsertOfSame ==
    /\ last.op = "save_to_database"
    /\ last.repeat
    /\ last.batch = <<"cA">>
    /\ last.outcomes = <<"Updated">>
    /\ \E r \in db : /\ r.unique_key = get_unique_key(cA)
                     /\ r.scraped_at # fromisoformat(cA.scraped_at)
                     /\ [r EXCEPT !.scraped_at = 1] = WithId(from_electrician(cA, now), r.id)

-----------------------------------------------------------------------------
(* Properties of the batch upsert *)

\* the key of every candidate, computed once
KeyTable == [n \in DOMAIN Cand |-> get_unique_key(Cand[n])]

KeyOf(name) == KeyTable[name]

\* the candidates of the batch whose key is that of row r
Matching(batch, r) == {i \in 1..Len(batch) : KeyOf(batch[i]) = r.unique_key}

\* C4: a save_to_database call keeps every stored record, and changes of a
\* record at most name, address, rating, review_count, source_url and
\* scraped_at.  A changed name, address or source_url is the non-empty value
\* of a candidate of the call with the record's key; a changed rating or
\* review_count is the non-null value of such a candidate.  So a field that
\* the matching candidates leave absent keeps its value, and a record that no
\* candidate matches is unchanged.
T_C4_UpdateFrame ==
    [][ SaveTaken =>
          \A r \in db :
             /\ \E r2 \in db' : r2.id = r.id
             /\ LET r2 == RowById(db', r.id)
                    m == Matching(last'.batch, r)
                IN  /\ \A f \in OtherFields : r2[f] = r[f]
                    /\ \A f \in MergedStrFields :
                          r2[f] # r[f] =>
                             \E i \in m : /\ Cand[last'.batch[i]][f] # None
                                          /\ Cand[last'.batch[i]][f] # Some("")
                                          /\ r2[f] = Cand[last'.batch[i]][f]
                    /\ \A f \in MergedNumFields :
                          r2[f] # r[f] =>
                             \E i \in m : /\ Cand[last'.batch[i]][f] # None
                                          /\ r2[f] = Cand[last'.batch[i]][f]
                    /\ (m = {} => r2 = r) ]_vars

\* Scenario B and the partial candidate: the record inserted for cB was
\* updated by cD2, which supplies a name and leaves address, rating and
\* source_url empty; the name changed, the address stayed, and another
\* record is stored beside it
W_C4_PartialUpdate ==
    /\ last.op = "save_to_database"
    /\ last.batch = <<"cD2">>
    /\ last.outcomes = <<"Updated">>
    /\ \E r \in db : /\ r.unique_key = KeyOf("cD2")
                     /\ r.name = Some("Patel and Sons")
                     /\ r.address = Some("Ring Road")
                     /\ r.rating = None
                     /\ r.phone = P1intl
    /\ \E r \in db : r.unique_key = KeyOf("cK")

\* C6: the number a save_to_database call returns is the number of rows the
\* call added to the table; a call none of whose candidates was inserted
\* returns 0 and adds no row.
T_C6_ReturnsInsertedCount ==
    [][ (SaveTaken /\ ~last'.raised) =>
          /\ last'.ret = Some([Inserted |-> Cardinality(db') - Cardinality(db)])
          /\ {r.id : r \in db} \subseteq {r.id : r \in db'}
          /\ ((\A i \in 1..Len(last'.outcomes) : last'.outcomes[i] # "Inserted")
                => last'.ret = Some([Inserted |-> 0])) ]_vars

\* a batch of updates only: the candidate cB submitted again, twice, to a
\* store that holds the record inserted for it; the call returned 0
W_C6_UpdatesOnlyBatch ==
    /\ last.op = "save_to_database"
    /\ last.batch = <<"cB", "cB">>
    /\ last.outcomes = <<"Updated", "Updated">>
    /\ last.ret = Some([Inserted |-> 0])
    /\ \E r \in db : r.unique_key = KeyOf("cB") /\ r.phone = cB.phone

\* the keys stored before the call or inserted by the candidates before i
RECURSIVE KeysBefore(_, _, _)
KeysBefore(rows, batch, i) ==
    IF i <= 1 THEN {r.unique_key : r \in rows}
    ELSE KeysBefore(rows, batch, i - 1) \cup {KeyOf(batch[i - 1])}

\* the batch of 5 meets a store that holds the keys of its first three
\* candidates and not those of its last two
Batch5Case(rows) ==
    /\ \A i \in 1..3 : \E r \in rows : r.unique_key = KeyOf(Batch5[i])
    /\ \A i \in 4..5 : \A r \in rows : r.unique_key # KeyOf(Batch5[i])

D_C8_InvalidPhoneRejected ==
    /\ \A r \in db : NormalizesToValid(r.phone)
    /\ ( /\ last.op = "save_to_database"
         /\ Len(last.batch) = 1
         /\ ~NormalizesToValid(Cand[last.batch[1]].phone) )
       => (~last.raised /\ last.outcomes = <<"Rejected">>)

-----------------------------------------------------------------------------
(* Properties of the store under concurrent calls *)

RowsOfKey(k) == {r \in db : r.unique_key = k}

BatchKeys(names) == {KeyOf(names[i]) : i \in 1..Len(names)}

\* the keys for which process p added a row in its call
InsertedKeys(p) ==
    {procs[p].sess.new[i].unique_key : i \in 1..Len(procs[p].sess.new)}

\* C1: no two rows of the table share a unique_key, whatever calls ran and
\* however they interleaved.
T_C1_OneRowPerKey ==
    \A r1 \in db : \A r2 \in db : r1.unique_key = r2.unique_key => r1 = r2

\* calls have stored two keys, and a finished call met a candidate whose
\* key was stored already and updated that record
W_C1_TwoKeysAfterUpdate ==
    /\ Cardinality(db) = 2
    /\ \E p \in Procs :
          /\ procs[p].pc = "done"
          /\ ~procs[p].raised
          /\ \E i \in 1..Len(procs[p].sess.outcomes) : procs[p].sess.outcomes[i] = "Updated"

\* every candidate of the batch has the required fields
Storable(names) == \A i \in 1..Len(names) : ~NotNullViolation(Cand[names[i]])

\* C2: when the two processes have both finished calls, of candidates that
\* have the required fields, that began while a key k of both their batches
\* was not stored, the table holds exactly one row for k, and they have not
\* both committed a row inserted for k.
T_C2_ConcurrentUpsert ==
    \A k \in BatchKeys(procs["p1"].batch) \cap BatchKeys(procs["p2"].batch) :
        ( /\ procs["p1"].pc = "done" /\ procs["p2"].pc = "done"
          /\ Storable(procs["p1"].batch) /\ Storable(procs["p2"].batch)
          /\ k \notin procs["p1"].start /\ k \notin procs["p2"].start )
        => /\ Cardinality(RowsOfKey(k)) = 1
           /\ ~( /\ ~procs["p1"].raised /\ k \in InsertedKeys("p1")
                 /\ ~procs["p2"].raised /\ k \in InsertedKeys("p2") )

\* both processes saw no record for the key of cA and cD1 and added a row
\* for it; one commit went through and the other raised
W_C2_BothObservedNone ==
    /\ procs["p1"].pc = "done" /\ procs["p2"].pc = "done"
    /\ procs["p1"].batch = <<"cA">> /\ procs["p2"].batch = <<"cD1">>
    /\ procs["p1"].sess.outcomes = <<"Inserted">>
    /\ procs["p2"].sess.outcomes = <<"Inserted">>
    /\ procs["p1"].raised # procs["p2"].raised
    /\ Cardinality(RowsOfKey(KeyOf("cA"))) = 1

-----------------------------------------------------------------------------
(* Phone extraction from text *)

\* A pattern is a sequence of elements; an element matches one character of
\* its set, and an optional element may also match nothing (tried second,
\* as the greedy "?" does).
One(S) == [set |-> S, opt |-> FALSE]
Opt(S) == [set |-> S, opt |-> TRUE]
Rep(el, n) == [i \in 1..n |-> el]

RegexDigit == AsciiDigits \cup UnicodeDigits
RegexSep == Whitespace \cup {"-"}

\* the five patterns, in the order of the list
patterns ==
    << <<One({"+"}), One({"9"}), One({"1"}), Opt(RegexSep), One(Digit6to9)>> \o Rep(One(RegexDigit), 9),
       <<One({"9"}), One({"1"}), Opt(RegexSep), One(Digit6to9)>> \o Rep(One(RegexDigit), 9),
       <<One({"0"}), One(Digit6to9)>> \o Rep(One(RegexDigit), 9),
       <<One(Digit6to9)>> \o Rep(One(RegexDigit), 9),
       <<One(Digit6to9)>> \o Rep(One(RegexDigit), 4) \o <<Opt(RegexSep)>> \o Rep(One(RegexDigit), 5) >>

\* the position after the match of pat[j..] at txt[i..], or 0: no match
RECURSIVE MatchEnd(_, _, _, _)
MatchEnd(pat, j, txt, i) ==
    IF j > Len(pat) THEN i
    ELSE IF i <= Len(txt) /\ txt[i] \in pat[j].set
         THEN CHOOSE r \in { IF e # 0 THEN e
                             ELSE IF pat[j].opt THEN MatchEnd(pat, j + 1, txt, i)
                             ELSE 0 : e \in {MatchEnd(pat, j + 1, txt, i + 1)} } : TRUE
         ELSE IF pat[j].opt THEN MatchEnd(pat, j + 1, txt, i)
         ELSE 0

\* re.findall(pat, txt): the non-overlapping matches, scanning from the left
RECURSIVE findall(_, _, _)
findall(pat, txt, i) ==
    IF i > Len(txt) THEN <<>>
    ELSE CHOOSE r \in { IF e = 0 THEN findall(pat, txt, i + 1)
                        ELSE <<SubSeq(txt, i, e - 1)>> \o findall(pat, txt, e)
                        : e \in {MatchEnd(pat, 1, txt, i)} } : TRUE

Range(s) == {s[i] : i \in 1..Len(s)}

AllMatches(txt) == UNION {Range(findall(patterns[k], txt, 1)) : k \in 1..Len(patterns)}

\* BaseScraper._extract_phone_numbers (the result as a set, as list(set(..)))
extract_phone_numbers(txt) ==
    {LastN(DigitsOf(m), 10) : m \in {m \in AllMatches(txt) : Len(DigitsOf(m)) >= 10}}

\* extract_indian_phone of scrape_surat_verified.py
extract_indian_phone(txt) ==
    {ph \in extract_phone_numbers(txt) : ph[1] \in Digit6to9}

\* extract_phone of build_verified_db.py
extract_phone(txt) ==
    {m \in Range(findall(patterns[4], txt, 1)) : Cardinality(Range(m)) >= 4}

\* Input texts: numbers are made of two chunks of five digits
c98250 == <<"9", "8", "2", "5", "0">>
c12345 == <<"1", "2", "3", "4", "5">>
c99999 == <<"9", "9", "9", "9", "9">>
c91919 == <<"9", "1", "9", "1", "9">>
c98989 == <<"9", "8", "9", "8", "9">>
c89898 == <<"8", "9", "8", "9", "8">>
\* a chunk whose last digit is written in Devanagari
c9825d == <<"9", "8", "2", "5", "U+096B">>

HeadChunks == {c98250, c99999, c91919}
TailChunks == {c12345, c99999, c91919}

\* the supported written forms of the number a \o b
WrittenForms(a, b) ==
    LET mids == {<<>>, <<" ">>, <<"-">>}
        heads == {<<>>, <<"0">>}
                 \cup {cc \o sep : cc \in {<<"+", "9", "1">>, <<"9", "1">>},
                                   sep \in {<<>>, <<" ">>, <<"-">>}}
    IN  {h \o a \o mid \o b : h \in heads, mid \in mids}

Pieces == {c99999, c98989, c89898, c12345, c9825d, <<" ">>}

RECURSIVE Concat(_)
Concat(ss) == IF ss = <<>> THEN <<>> ELSE Head(ss) \o Concat(Tail(ss))

FreeTexts == {Concat(ss) : ss \in SeqsUpTo(Pieces, MaxChunks)}

Texts == FreeTexts \cup UNION {WrittenForms(a, b) : a \in HeadChunks, b \in TailChunks}

\* lines 182-194: the list "normalized", before duplicates are dropped
normalized(txt) ==
    LET found == Concat([k \in 1..Len(patterns) |-> findall(patterns[k], txt, 1)])
        long == SelectSeq(found, LAMBDA m : Len(DigitsOf(m)) >= 10)
    IN  [i \in 1..Len(long) |-> LastN(DigitsOf(long[i]), 10)]

\* the lists that hold every element of S once
RECURSIVE ListsOf(_)
ListsOf(S) ==
    IF S = {} THEN {<<>>}
    ELSE UNION {{<<x>> \o l : l \in ListsOf(S \ {x})} : x \in S}

\* a return statement that hands out the list as collected
ReturnedLists_raw(txt) == {normalized(txt)}

\* line 196: list(set(normalized)); the order of the list is not fixed
ReturnedLists(txt) == ListsOf(Range(normalized(txt)))

NoPhones ==
    [ extract_phone_numbers |-> {}, extract_indian_phone |-> {},
      extract_phone |-> {}, returned |-> <<>> ]

InitPhone ==
    /\ db = {}
    /\ now = 0
    /\ last = NoCall
    /\ procs = IdleProcs
    /\ text \in Texts
    /\ phones = NoPhones
    /\ ppc = "input"
    /\ pm = NoManager
    /\ gets = <<>>
    /\ orch = NoRun

Extract ==
    /\ ppc = "input"
    /\ \E l \in ReturnedLists(text) :
          phones' = [ extract_phone_numbers |-> extract_phone_numbers(text),
                      extract_indian_phone |-> extract_indian_phone(text),
                      extract_phone |-> extract_phone(text),
                      returned |-> l ]
    /\ ppc' = "done"
    /\ UNCHANGED <<db, now, last, procs, text, pm, gets, orch>>

NextPhone == Extract

SpecPhone == InitPhone /\ [][NextPhone]_vars

\* C9: for every number a \o b with first digit 6-9 and every supported
\* written form of it, _extract_phone_numbers and extract_indian_phone
\* applied to that form return exactly the set holding a \o b.
D_C9_RecoversExactly ==
    ppc = "done" =>
        \A a \in HeadChunks, b \in TailChunks :
            text \in WrittenForms(a, b) =>
                /\ phones.extract_phone_numbers = {a \o b}
                /\ phones.extract_indian_phone = {a \o b}

\* C10: no extractor returns a string of ten digits with fewer than four
\* distinct digits, whatever the text.
D_C10_NoDegenerateNumber ==
    ppc = "done" =>
        \A ph \in phones.extract_phone_numbers \cup phones.extract_indian_phone
                  \cup phones.extract_phone :
            Cardinality(Range(ph)) >= 4

\* C11: every string _extract_phone_numbers returns has exactly 10
\* characters, all of them digits, the first one of 6, 7, 8, 9; the returned
\* list holds no string twice and holds exactly the normalized matches; it
\* is empty when no pattern matches.
T_C11_ResultShape ==
    ppc = "done" =>
        /\ \A i \in 1..Len(phones.returned) :
              /\ Len(phones.returned[i]) = 10
              /\ \A j \in 1..10 : isdigit(phones.returned[i][j])
              /\ phones.returned[i][1] \in Digit6to9
        /\ \A i, j \in 1..Len(phones.returned) :
              phones.returned[i] = phones.returned[j] => i = j
        /\ Range(phones.returned) = phones.extract_phone_numbers
        /\ AllMatches(text) = {} => phones.returned = <<>>

\* a text in which two patterns find the same number: the list collected
\* is longer than the list returned
W_C11_DuplicateCollapsed ==
    /\ ppc = "done"
    /\ Len(phones.returned) >= 1
    /\ Len(normalized(text)) > Len(phones.returned)

-----------------------------------------------------------------------------
(* The identity key as a function: two candidates are drawn, and the step  *)
(* computes the key of each.                                               *)

SURAT == <<"S", "U", "R", "A", "T">>
up == <<"u", "p">>

KeyPhones == {P1plain, P1intl, P1zero, P2plain}
KeyCities == {Surat, surat, SURAT, Kakod}
KeyStates == {Gujarat, UP, up}

KeyInputs ==
    {Electrician("Patel Electric", ph, c, st) : ph \in KeyPhones, c \in KeyCities, st \in KeyStates}
    \cup {[Electrician("Patel and Sons", ph, c, st) EXCEPT !.address = Some("Ring Road")] :
            ph \in KeyPhones, c \in KeyCities, st \in KeyStates}

InitKey ==
    /\ db = {}
    /\ now = 0
    /\ \E a \in KeyInputs, b \in KeyInputs : last = [op |-> "key_input", a |-> a, b |-> b]
    /\ procs = IdleProcs
    /\ text = <<>>
    /\ phones = <<>>
    /\ ppc = "off"
    /\ pm = NoManager
    /\ gets = <<>>
    /\ orch = NoRun

ComputeKeys ==
    /\ last.op = "key_input"
    /\ last' = [ op |-> "get_unique_key", a |-> last.a, b |-> last.b,
                 ka |-> get_unique_key(last.a), kb |-> get_unique_key(last.b) ]
    /\ UNCHANGED <<db, now, procs, text, phones, ppc, pm, gets, orch>>

NextKey == ComputeKeys

SpecKey == InitKey /\ [][NextKey]_vars

\* C12: two candidates that agree on the last 10 digits of the phone, on the
\* lower-cased city and on the lower-cased state get the same key, whatever
\* their names, addresses, letter case and phone prefix or separators.
T_C12_KeyFunctionOfTriple ==
    last.op = "get_unique_key" =>
        ( ( /\ LastN(DigitsOf(last.a.phone), 10) = LastN(DigitsOf(last.b.phone), 10)
            /\ lower(last.a.city) = lower(last.b.city)
            /\ lower(last.a.state) = lower(last.b.state) )
          => last.ka = last.kb )

\* "+91 98250 12345" in Surat against "9825012345" in SURAT, under two
\* names: one key
W_C12_SameKeyDifferentSpelling ==
    /\ last.op = "get_unique_key"
    /\ last.a.phone = P1intl /\ last.b.phone = P1plain
    /\ last.a.city = Surat /\ last.b.city = SURAT
    /\ last.a.state = UP /\ last.b.state = up
    /\ last.a.name # last.b.name
    /\ last.ka = last.kb

-----------------------------------------------------------------------------
(* The other operations on the table: DataStorage.deduplicate_database and *)
(* the create and delete endpoints of web_app.py.                          *)

\* the sort key of line 330: (rating or 0, scraped_at)
SortKeyLE(a, b) ==
    LET ra == IF TruthyNum(a.rating) THEN a.rating[1] ELSE 0
        rb == IF TruthyNum(b.rating) THEN b.rating[1] ELSE 0
    IN  ra < rb \/ (ra = rb /\ a.scraped_at <= b.scraped_at)

\* lines 323-326: the phone values that more than one row carries
DuplicatePhones == {ph \in {r.phone : r \in db} : Cardinality({r \in db : r.phone = ph}) > 1}

\* records[0] under a sort that puts the lowest rating first
FirstSorted_ascending(ph) ==
    {r \in db : r.phone = ph /\ \A o \in db : o.phone = ph => SortKeyLE(r, o)}

\* records[0] after the sort: a row of the group with the largest sort key
\* (among equal keys the order of the unordered query decides)
FirstSorted(ph) ==
    {r \in db : r.phone = ph /\ \A o \in db : o.phone = ph => SortKeyLE(o, r)}

\* lines 328-335: "removed" after the loop over the duplicate phones: one more
\* for every record of records[1:]
RECURSIVE Removed(_)
Removed(dups) ==
    IF dups = {} THEN 0
    ELSE LET ph == CHOOSE x \in dups : TRUE
         IN  (Cardinality({r \in db : r.phone = ph}) - 1) + Removed(dups \ {ph})

\* DataStorage.deduplicate_database()
deduplicate_database ==
    /\ \E keep \in [DuplicatePhones -> db] :
          /\ \A ph \in DuplicatePhones : keep[ph] \in FirstSorted(ph)
          /\ db' = {r \in db : r.phone \notin DuplicatePhones \/ r = keep[r.phone]}
    /\ last' = [op |-> "deduplicate_database", removed |-> Removed(DuplicatePhones)]
    /\ UNCHANGED <<now, procs, text, phones, ppc, pm, gets, orch>>

\* lines 289-306: the record built from the JSON body {name, phone, city, state}
ManualRecord(name, phone, city, state, utcnow) ==
    [ name |-> Some(name), phone |-> phone, city |-> city, state |-> state,
      address |-> Some(""), website |-> None, services |-> None,
      rating |-> None, review_count |-> None,
      source |-> "Manual Entry", source_url |-> Some(""),
      verified |-> FALSE, scraped_at |-> utcnow,
      unique_key |-> <<"manual_", name, "_">> \o phone,
      category |-> Some("Electrician"), smart_meter_score |-> 50,
      verified_by |-> None, verified_at |-> None ]

\* POST /api/electrician with the JSON body {name, phone, city, state}
create_electrician(name, phone, city, state) ==
    LET record == ManualRecord(name, phone, city, state, now)
        existing == \E r \in db : r.phone = phone
        failed == ~existing /\ UniqueViolation(record, db)
    IN  /\ db' = IF existing \/ failed THEN db
                 ELSE db \cup {WithId(record, NextRowId(db))}
        /\ last' = [ op |-> "create_electrician", phone |-> phone,
                     status |-> IF existing THEN 400 ELSE IF failed THEN 500 ELSE 200 ]
        /\ UNCHANGED <<now, procs, text, phones, ppc, pm, gets, orch>>

\* DELETE /api/electrician/<id>
delete_electrician(id) ==
    /\ db' = {r \in db : r.id # id}
    /\ last' = [ op |-> "delete_electrician", id |-> id,
                 status |-> IF \E r \in db : r.id = id THEN 200 ELSE 404 ]
    /\ UNCHANGED <<now, procs, text, phones, ppc, pm, gets, orch>>

StoreCandidates == {"cA", "cD1", "cS", "cH"}

\* row ids grow without end when rows are deleted and added in turn: rows
\* are added while the next row id is at most MaxRowId
StoreUpsert ==
    /\ NextRowId(db) <= MaxRowId
    /\ \E c \in StoreCandidates : SaveToDatabase(<<c>>, TRUE)
StoreCreate ==
    /\ NextRowId(db) <= MaxRowId
    /\ \E ph \in {P1plain, P1intl, P3plain} : create_electrician("Manual", ph, Surat, Gujarat)
StoreDelete == \E id \in {r.id : r \in db} \cup {NextRowId(db)} : delete_electrician(id)

NextStore == StoreUpsert \/ deduplicate_database \/ StoreCreate \/ StoreDelete

SpecStore == InitStore /\ [][NextStore]_vars

\* C13: two stored records with the same phone and cities that differ by
\* more than letter case both stay stored, whatever operation runs, unless
\* one of the two is deleted by an explicit delete request.
D_C13_SamePhoneNeverMerged ==
    [][ \A r1 \in db : \A r2 \in db :
          ( /\ r1.phone = r2.phone
            /\ lower(r1.city) # lower(r2.city)
            /\ ~(last'.op = "delete_electrician" /\ last'.id \in {r1.id, r2.id}) )
          => /\ \E x \in db' : x.id = r1.id /\ x.unique_key = r1.unique_key
             /\ \E x \in db' : x.id = r2.id /\ x.unique_key = r2.unique_key ]_vars

\* the fields of a row that from_electrician copies from the candidate
CopiedFields ==
    {"name", "phone", "city", "state", "address", "website", "rating",
     "review_count", "source", "source_url", "verified"}

\* C14: a save_to_database call with one candidate that has a name and a
\* key not in the table does not raise and returns 1 (one insert); the
\* table gains exactly one row, which has the candidate's key, holds the
\* candidate's value in every copied field (rating and review_count NULL
\* when the candidate has none, verified as the candidate says), the
\* services as JSON and no verification metadata; every row stored before
\* is unchanged.
T_C14_InsertOfNewKey ==
    [][ ( /\ SaveTaken
          /\ Len(last'.batch) = 1
          /\ Cand[last'.batch[1]].name # None
          /\ KeyOf(last'.batch[1]) \notin StoredKeys )
        => LET c == Cand[last'.batch[1]]
           IN  /\ ~last'.raised
               /\ last'.ret = Some([Inserted |-> 1])
               /\ last'.outcomes = <<"Inserted">>
               /\ db \subseteq db'
               /\ Cardinality(db' \ db) = 1
               /\ \A r \in db' \ db :
                     /\ r.unique_key = KeyOf(last'.batch[1])
                     /\ \A f \in CopiedFields : r[f] = c[f]
                     /\ r.services = (IF c.services = <<>> THEN None
                                      ELSE Some(json_dumps(c.services)))
                     /\ r.verified_by = None /\ r.verified_at = None
                     /\ r.id \notin {o.id : o \in db} ]_vars

\* the candidate cD1 (verified, with rating, reviews and services) was
\* inserted beside a record stored before
W_C14_InsertedBesideOthers ==
    /\ last.op = "save_to_database"
    /\ last.batch = <<"cD1">>
    /\ last.outcomes = <<"Inserted">>
    /\ Cardinality(db) >= 2
    /\ \E r \in db : r.unique_key = KeyOf("cD1") /\ r.verified /\ r.rating = Some(45)

\* C15: a stored record stays stored, under its key, across every step
\* that is not the explicit delete request for that very record; so the set
\* of stored keys only grows across the other operations.
D_C15_NeverDeletedAutomatically ==
    [][ /\ \A r \in db :
              \/ \E x \in db' : x.id = r.id /\ x.unique_key = r.unique_key
              \/ last'.op = "delete_electrician" /\ last'.id = r.id
        /\ last'.op # "delete_electrician" => StoredKeys \subseteq {x.unique_key : x \in db'} ]_vars

\* C16: every stored row has the key that get_unique_key computes from the
\* row's own phone, city and state, as rows written by save_to_database do.
D_C16_OnlyEngineWrites ==
    \A r \in db : r.unique_key = get_unique_key(r)

-----------------------------------------------------------------------------
(* Retry after a conflict (two processes) *)

\* what the call of process p did with its candidates of key k
OutcomesFor(p, k) ==
    {procs[p].sess.outcomes[i] : i \in {j \in 1..Len(procs[p].batch) : KeyOf(procs[p].batch[j]) = k}}

\* process p has finished the re-run of a call that raised only because of
\* rows other writers had stored (every candidate has the required fields)
RetryDone(p) ==
    /\ procs[p].pc = "done" /\ procs[p].retry
    /\ procs[p].prev # {}
    /\ Storable(procs[p].batch)

\* C17 as stated: the re-run of a call that raised on a conflict does not
\* raise, applies the candidates of the conflicting key as updates and
\* leaves one row for that key.
D_C17_RetrySucceeds ==
    \A p \in Procs :
        RetryDone(p)
        => /\ ~procs[p].raised
           /\ \A k \in procs[p].prev :
                 /\ OutcomesFor(p, k) = {"Updated"}
                 /\ Cardinality(RowsOfKey(k)) = 1

\* C17, amended: the re-run applies the candidates of the conflicting key
\* as updates and one row for that key is stored; the re-run raises only on
\* another key, one that was not stored when the re-run began.
T_C17_RetryUpdatesConflictingKey ==
    \A p \in Procs :
        RetryDone(p)
        => /\ \A k \in procs[p].prev :
                 /\ OutcomesFor(p, k) = {"Updated"}
                 /\ Cardinality(RowsOfKey(k)) = 1
           /\ procs[p].raised =>
                 /\ procs[p].conflict # {}
                 /\ procs[p].conflict \cap (procs[p].prev \cup procs[p].start) = {}

\* a call raised on the key of cA, was run again and went through
W_C17_RetryWentThrough ==
    \E p \in Procs :
        /\ procs[p].pc = "done" /\ procs[p].retry /\ ~procs[p].raised
        /\ procs[p].prev = {KeyOf("cA")}
        /\ "Updated" \in OutcomesFor(p, KeyOf("cA"))

-----------------------------------------------------------------------------
(* The last-updated timestamp *)

\* C18: a save_to_database call with one candidate that is inserted or
\* applied as an update leaves the record of the candidate's key with
\* scraped_at equal to the time of the call, and no stored record gets a
\* smaller scraped_at than it had.
D_C18_TimestampIsUpsertTime ==
    [][ ( /\ SaveTaken
          /\ ~last'.raised
          /\ Len(last'.batch) = 1
          /\ last'.outcomes[1] \in {"Inserted", "Updated"} )
        => /\ \A r \in db' : r.unique_key = KeyOf(last'.batch[1]) => r.scraped_at = now
           /\ \A r \in db : \A x \in db' : x.id = r.id => x.scraped_at >= r.scraped_at ]_vars

-----------------------------------------------------------------------------
(* Failure of a call *)

\* process p ends its call in this step with an exception
RaisesNow(p) == procs[p].pc = "loop" /\ procs'[p].pc = "done" /\ procs'[p].raised

\* C19: when a save_to_database call raises, the table is left as it was:
\* no row of the call is stored, also not the rows of the candidates that
\* were processed before the failing one, and no stored row is changed.
T_C19_AllOrNothing ==
    [][ \A p \in Procs : RaisesNow(p) => db' = db ]_vars

\* the call for cA and cX found neither stored and added two rows; its
\* commit raised on the key of cX, and the key of cA is not stored
W_C19_FirstCandidateNotPersisted ==
    \E p \in Procs :
        /\ procs[p].pc = "done" /\ procs[p].raised
        /\ procs[p].batch = <<"cA", "cX">>
        /\ procs[p].sess.outcomes = <<"Inserted", "Inserted">>
        /\ procs[p].conflict = {KeyOf("cX")}
        /\ KeyOf("cA") \notin StoredKeys

-----------------------------------------------------------------------------
(* Candidates of one key in one batch *)

\* the positions of the batch that carry key k
PositionsOf(batch, k) == {i \in 1..Len(batch) : KeyOf(batch[i]) = k}

\* the row that results when the candidates of key k at the positions from
\* i on are merged, one after the other, into row
RECURSIVE MergedFrom(_, _, _, _, _)
MergedFrom(row, batch, i, k, utcnow) ==
    IF i > Len(batch) THEN row
    ELSE IF KeyOf(batch[i]) = k
         THEN MergedFrom(MergeInto(row, Cand[batch[i]], utcnow), batch, i + 1, k, utcnow)
         ELSE MergedFrom(row, batch, i + 1, k, utcnow)

\* C20: in a save_to_database call whose candidates have the required
\* fields, for every key k of the batch that is not stored: the call does
\* not raise, the first candidate of k is inserted and the later ones are
\* applied as updates, one row for k is stored and it is the first
\* candidate's row with the later candidates merged into it, and the
\* returned count is the number of such keys.
T_C20_DuplicateKeysInBatch ==
    [][ (SaveTaken /\ Storable(last'.batch))
        => \A batch \in {last'.batch} : \A fresh \in {BatchKeys(batch) \ StoredKeys} :
               /\ ~last'.raised
               /\ last'.ret = Some([Inserted |-> Cardinality(fresh)])
               /\ \A k \in fresh :
                     LET first == Min(PositionsOf(batch, k))
                     IN  /\ last'.outcomes[first] = "Inserted"
                         /\ \A i \in PositionsOf(batch, k) \ {first} :
                               last'.outcomes[i] = "Updated"
                         /\ Cardinality({r \in db' : r.unique_key = k}) = 1
                         /\ \A r \in db' : r.unique_key = k =>
                               r = WithId(MergedFrom(from_electrician(Cand[batch[first]], now),
                                                     batch, first + 1, k, now), r.id) ]_vars

\* cA and cB, of one key, in one batch on an empty table: one insert, one
\* update, and the row has the address of cB
W_C20_TwoOfOneKey ==
    /\ last.op = "save_to_database"
    /\ last.batch = <<"cA", "cB">>
    /\ last.outcomes = <<"Inserted", "Updated">>
    /\ last.ret = Some([Inserted |-> 1])
    /\ ~last.raised
    /\ Cardinality(db) = 1
    /\ \A r \in db : r.address = Some("Ring Road")

-----------------------------------------------------------------------------
(* update_existing = False *)

\* C21: Skipped outcome.  A save_to_database call with update_existing = False
\* whose candidate has a key that is already stored leaves every stored record
\* as it was, scraped_at included, adds no record, is a Skipped and returns a
\* count of 0.
T_C21_SkippedLeavesRecord ==
    [][ ( /\ SaveTaken
          /\ ~last'.update_existing
          /\ Len(last'.batch) = 1
          /\ KeyOf(last'.batch[1]) \in StoredKeys )
        => /\ db' = db
           /\ ~last'.raised
           /\ last'.outcomes = <<"Skipped">>
           /\ last'.ret = Some([Inserted |-> 0]) ]_vars

\* the candidate cB, which carries an address, was skipped at a later time
\* than the insert of cA and the stored record still has no address
W_C21_SkippedWithNewData ==
    /\ last.op = "save_to_database"
    /\ ~last.update_existing
    /\ last.batch = <<"cB">>
    /\ last.outcomes = <<"Skipped">>
    /\ \E r \in db : /\ r.unique_key = get_unique_key(cB)
                     /\ r.address = None
                     /\ r.scraped_at = fromisoformat(cA.scraped_at)
                     /\ r.scraped_at # now

\* C22: an upsert changes the verification state of no existing record, in
\* either direction.  A save_to_database call leaves verified, verified_by and
\* verified_at of every stored record as they were; so a candidate with
\* verified = true merged into an unverified record leaves it unverified.
T_C22_VerificationUntouched ==
    [][ SaveTaken =>
          \A r \in db :
             \E r2 \in db' : /\ r2.id = r.id
                             /\ r2.verified = r.verified
                             /\ r2.verified_by = r.verified_by
                             /\ r2.verified_at = r.verified_at ]_vars

\* the verified candidate cD1 was merged into the unverified record that cA
\* had inserted: the record took its rating and is still unverified
W_C22_VerifiedCandidateMerged ==
    /\ last.op = "save_to_database"
    /\ last.batch = <<"cD1">>
    /\ last.outcomes = <<"Updated">>
    /\ \E r \in db : /\ r.unique_key = get_unique_key(cD1)
                     /\ r.rating = cD1.rating
                     /\ ~r.verified
                     /\ r.verified_by = None
                     /\ r.verified_at = None

-----------------------------------------------------------------------------
(* src/src/proxy_manager.py: the ProxyManager.  A Proxy object is known by   *)
(* its host; pm.objs holds the counters of every Proxy object, in the pool  *)
(* or taken out of it (a caller keeps the reference get_proxy gave it).     *)
(* pm.proxies is the deque, as the sequence of the hosts.  The waiting of   *)
(* get_proxy (min_delay_between_uses) delays the return and is left out.    *)

ProxyHosts == <<"10.0.0.1", "10.0.0.2", "10.0.0.3">>

\* Proxy(host, port) with the dataclass defaults
Proxy(host) == [host |-> host, fail_count |-> 0, success_count |-> 0]

Strategies == {"round_robin", "random", "weighted", "sticky"}

\* ProxyManager(proxies, rotation_strategy, max_failures=max_failures)
ProxyManager(proxies, rotation_strategy, max_failures) ==
    [ proxies |-> proxies, rotation_strategy |-> rotation_strategy,
      max_failures |-> max_failures,
      objs |-> [h \in Range(ProxyHosts) |-> Proxy(h)] ]

\* line 131: [p for p in self.proxies if p.fail_count < self.max_failures]
Usable(m) ==
    SelectSeq(m.proxies, LAMBDA h : m.objs[h].fail_count < m.max_failures)

\* what random.choice and random.choices may give: an index of the pool
\* (every weight, success_rate + 0.1, is positive); 1 where nothing is drawn
Picks(m) ==
    IF m.rotation_strategy \in {"random", "weighted"} /\ Usable(m) # <<>>
    THEN 1..Len(Usable(m))
    ELSE {1}

\* get_proxy keeping the proxies that failed in the pool
get_proxy_nofilter(m, pick) ==
    IF m.proxies = <<>> THEN [pm |-> m, ret |-> None]
    ELSE IF m.rotation_strategy = "round_robin"
         THEN [ pm  |-> [m EXCEPT !.proxies = Tail(@) \o <<Head(@)>>],
                ret |-> Some(Head(m.proxies)) ]
         ELSE IF m.rotation_strategy \in {"random", "weighted"}
              THEN [pm |-> m, ret |-> Some(m.proxies[pick])]
              ELSE [pm |-> m, ret |-> Some(m.proxies[1])]

\* get_proxy taking the last of the deque in round_robin
get_proxy_backwards(m, pick) ==
    IF m.proxies = <<>> THEN [pm |-> m, ret |-> None]
    ELSE LET kept == Usable(m)
             m1 == [m EXCEPT !.proxies = kept]
         IN  IF kept = <<>> THEN [pm |-> m1, ret |-> None]
             ELSE IF m.rotation_strategy = "round_robin"
                  THEN [ pm  |-> [m1 EXCEPT !.proxies =
                                     <<kept[Len(kept)]>> \o SubSeq(kept, 1, Len(kept) - 1)],
                         ret |-> Some(kept[Len(kept)]) ]
                  ELSE IF m.rotation_strategy \in {"random", "weighted"}
                       THEN [pm |-> m1, ret |-> Some(kept[pick])]
                       ELSE [pm |-> m1, ret |-> Some(kept[1])]

\* ProxyManager.get_proxy (lines 125-155): the manager after the call and the
\* proxy returned
get_proxy(m, pick) ==
    IF m.proxies = <<>> THEN [pm |-> m, ret |-> None]
    ELSE LET kept == Usable(m)
             m1 == [m EXCEPT !.proxies = kept]
         IN  IF kept = <<>> THEN [pm |-> m1, ret |-> None]
             ELSE IF m.rotation_strategy = "round_robin"
                  THEN [ pm  |-> [m1 EXCEPT !.proxies = Tail(kept) \o <<Head(kept)>>],
                         ret |-> Some(Head(kept)) ]
                  ELSE IF m.rotation_strategy \in {"random", "weighted"}
                       THEN [pm |-> m1, ret |-> Some(kept[pick])]
                       ELSE [pm |-> m1, ret |-> Some(kept[1])]

\* ProxyManager.mark_success (lines 157-160)
mark_success(m, proxy) ==
    [m EXCEPT !.objs[proxy].success_count = @ + 1,
              !.objs[proxy].fail_count = IF @ - 1 > 0 THEN @ - 1 ELSE 0]

\* ProxyManager.mark_failure (lines 162-165)
mark_failure(m, proxy) ==
    [m EXCEPT !.objs[proxy].fail_count = @ + 1]

\* the log of the get_proxy calls, kept for a round_robin manager: the latest
\* Len(ProxyHosts) + 1 calls
Logged(m, log, entry) ==
    LET l == Append(log, entry)
    IN  IF m.rotation_strategy # "round_robin" THEN log
        ELSE IF Len(l) > Len(ProxyHosts) + 1 THEN Tail(l) ELSE l

InitProxy ==
    /\ db = {}
    /\ now = 0
    /\ last = NoCall
    /\ procs = IdleProcs
    /\ text = <<>>
    /\ phones = <<>>
    /\ ppc = "off"
    /\ \E n \in 0..Len(ProxyHosts), st \in Strategies, mf \in 0..MaxFailures :
          pm = ProxyManager(SubSeq(ProxyHosts, 1, n), st, mf)
    /\ gets = <<>>
    /\ orch = NoRun

\* a call of get_proxy; last.proxies is the pool at the call (the call changes
\* no counter), the entry of the log holds the usable pool the proxy was
\* taken from
GetProxy ==
    \E pick \in Picks(pm) :
    \E r \in {get_proxy(pm, pick)} :
        /\ pm' = r.pm
        /\ last' = [op |-> "get_proxy", ret |-> r.ret, proxies |-> pm.proxies]
        /\ gets' = Logged(pm, gets, [ret |-> r.ret, pool |-> Usable(pm)])
        /\ UNCHANGED <<db, now, procs, text, phones, ppc, orch>>

\* a caller reports on a proxy it was given
MarkSuccess ==
    \E h \in Range(ProxyHosts) :
        /\ pm.objs[h].success_count < MaxSuccess
        /\ pm' = mark_success(pm, h)
        /\ last' = [op |-> "mark_success"]
        /\ UNCHANGED <<db, now, procs, text, phones, ppc, gets, orch>>

MarkFailure ==
    \E h \in Range(ProxyHosts) :
        /\ pm.objs[h].fail_count < MaxFailures
        /\ pm' = mark_failure(pm, h)
        /\ last' = [op |-> "mark_failure"]
        /\ UNCHANGED <<db, now, procs, text, phones, ppc, gets, orch>>

NextProxy == GetProxy \/ MarkSuccess \/ MarkFailure

SpecProxy == InitProxy /\ [][NextProxy]_vars

\* C23: get_proxy never returns a proxy whose fail_count has reached
\* max_failures.  After any sequence of get_proxy, mark_success and
\* mark_failure calls, the proxy a get_proxy call returns is in the pool and
\* has fail_count < max_failures when it is returned, and the call returns None
\* exactly when the pool held no proxy with fail_count < max_failures.
T_C23_NeverReturnsFailedProxy ==
    last.op = "get_proxy" =>
        /\ last.ret # None =>
              /\ pm.objs[last.ret[1]].fail_count < pm.max_failures
              /\ last.ret[1] \in Range(last.proxies)
              /\ last.ret[1] \in Range(pm.proxies)
        /\ last.ret = None <=>
              ~ \E h \in Range(last.proxies) :
                    pm.objs[h].fail_count < pm.max_failures

\* a call took a failed proxy out of the pool and returned another one
W_C23_FailedProxySkipped ==
    /\ last.op = "get_proxy"
    /\ last.ret # None
    /\ \E h \in Range(last.proxies) :
          /\ pm.objs[h].fail_count >= pm.max_failures
          /\ h \notin Range(pm.proxies)
          /\ h # last.ret[1]

\* the calls i .. j of the log took no proxy out of the pool
NoneRemoved(i, j) ==
    \A k \in i..j : Range(gets[k].pool) = Range(gets[i].pool)

\* C24: round robin.  With the round_robin strategy and a pool of n proxies
\* none of which is removed in between, n consecutive get_proxy calls return
\* each of the n proxies once, in the order of the pool, and the call after
\* them returns the proxy the first one returned.
T_C24_RoundRobinOrder ==
    pm.rotation_strategy = "round_robin" =>
        \A i \in 1..Len(gets) :
            LET n == Len(gets[i].pool)
            IN  /\ (n >= 1 /\ i + n - 1 <= Len(gets) /\ NoneRemoved(i, i + n - 1)) =>
                      \A k \in 0..(n - 1) : gets[i + k].ret = Some(gets[i].pool[k + 1])
                /\ (n >= 1 /\ i + n <= Len(gets) /\ NoneRemoved(i, i + n)) =>
                      gets[i + n].ret = gets[i].ret

\* four calls in a row on a pool of three proxies, one of which failed once
\* in between without being removed
W_C24_FullTurn ==
    /\ pm.rotation_strategy = "round_robin"
    /\ Len(gets) = Len(ProxyHosts) + 1
    /\ Len(gets[1].pool) = Len(ProxyHosts)
    /\ NoneRemoved(1, Len(gets))
    /\ gets[Len(gets)].ret = gets[1].ret
    /\ \E h \in Range(ProxyHosts) : pm.objs[h].fail_count > 0

-----------------------------------------------------------------------------
(* src/scrape_with_proxy.py: make_request.  What requests.get gives in an   *)
(* attempt is an input: a RequestException, or a response with its status   *)
(* code and whether its text holds "captcha".                               *)

RequestException == [kind |-> "RequestException"]
Response(status_code, captcha) ==
    [kind |-> "response", status_code |-> status_code, captcha |-> captcha]

Fetched ==
    {RequestException, Response(200, FALSE), Response(200, TRUE),
     Response(403, FALSE), Response(500, FALSE)}

\* line 163
IsBlocked(response) == response.status_code = 403 \/ response.captcha

\* a test that lets every response through that is not blocked
IsOK_any(response) == TRUE

\* line 169
IsOK(response) == response.status_code = 200

\* the state of a running make_request call: the manager, the log of its
\* get_proxy calls, the attempts made (proxy used, what was fetched, the mark_
\* calls made), and what was returned
NewRequest(m, log) ==
    [pm |-> m, gets |-> log, attempts |-> <<>>, returned |-> FALSE, ret |-> None]

\* line 144: proxy_manager.get_proxy() if proxy_manager.count > 0 else None
TakeProxy(m, pick) ==
    IF Len(m.proxies) > 0
    THEN get_proxy(m, IF pick \in Picks(m) THEN pick ELSE 1)
    ELSE [pm |-> m, ret |-> None]

\* lines 144-177: one pass of the loop
Attempt(st, fetched, pick) ==
    LET took == Len(st.pm.proxies) > 0
        r == TakeProxy(st.pm, pick)
        proxy == r.ret
        log == IF took
               THEN Logged(st.pm, st.gets, [ret |-> r.ret, pool |-> Usable(st.pm)])
               ELSE st.gets
        failed == \/ fetched.kind = "RequestException"
                  \/ IsBlocked(fetched)
        ok == ~failed /\ IsOK(fetched)
        marked == IF proxy = None THEN <<>>
                  ELSE IF failed THEN <<"mark_failure">>
                  ELSE IF ok THEN <<"mark_success">>
                  ELSE <<>>
        m2 == IF marked = <<"mark_failure">> THEN mark_failure(r.pm, proxy[1])
              ELSE IF marked = <<"mark_success">> THEN mark_success(r.pm, proxy[1])
              ELSE r.pm
    IN  [ pm |-> m2, gets |-> log,
          attempts |-> Append(st.attempts,
                              [proxy |-> proxy, fetched |-> fetched, marked |-> marked]),
          returned |-> ok,
          ret |-> IF ok THEN Some(fetched) ELSE None ]

\* make_request(url, proxy_manager, max_retries) (lines 140-179)
RECURSIVE make_request(_, _, _, _, _)
make_request(st, attempt, max_retries, fetches, picks) ==
    IF attempt > max_retries \/ st.returned THEN st
    ELSE CHOOSE r \in { make_request(s2, attempt + 1, max_retries, fetches, picks) :
                         s2 \in {Attempt(st, fetches[attempt], picks[attempt])} } : TRUE

\* the managers make_request is run on are those of setup_proxies, which all
\* have the default strategy
RequestStrategies == {"round_robin"}

\* their pools: no proxy (requests go out directly), one, or two
RequestPools == {SubSeq(ProxyHosts, 1, n) : n \in 0..2}

InitRequest ==
    /\ db = {}
    /\ now = 0
    /\ last = NoCall
    /\ procs = IdleProcs
    /\ text = <<>>
    /\ phones = <<>>
    /\ ppc = "off"
    /\ \E pool \in RequestPools, st \in RequestStrategies :
          pm = ProxyManager(pool, st, MaxFailures)
    /\ gets = <<>>
    /\ orch = NoRun

\* the draws of the random strategies, one for each attempt
PickSet ==
    IF pm.rotation_strategy \in {"random", "weighted"} /\ pm.proxies # <<>>
    THEN 1..Len(pm.proxies) ELSE {1}

MakeRequest ==
    \E max_retries \in 0..MaxRetries :
    \E fetches \in [1..max_retries -> Fetched], picks \in [1..max_retries -> PickSet] :
    \E r \in {make_request(NewRequest(pm, gets), 1, max_retries, fetches, picks)} :
        /\ \A h \in Range(ProxyHosts) : r.pm.objs[h].success_count <= MaxSuccess
        /\ pm' = r.pm
        /\ gets' = r.gets
        /\ last' = [ op |-> "make_request", max_retries |-> max_retries,
                     attempts |-> r.attempts, ret |-> r.ret ]
        /\ UNCHANGED <<db, now, procs, text, phones, ppc, orch>>

NextRequest == MakeRequest

SpecRequest == InitRequest /\ [][NextRequest]_vars

\* the attempt fetched a response with status 200 and no block or captcha marker
Fine(a) ==
    /\ a.fetched.kind = "response"
    /\ a.fetched.status_code = 200
    /\ ~a.fetched.captcha

\* C25: make_request ends after at most max_retries fetch attempts; it returns
\* a response only if an attempt got HTTP 200 without a block or captcha
\* marker, namely that response, fetched in its last attempt; and it returns
\* None, after max_retries attempts, when every attempt was blocked, failed
\* with a request exception or got another status.
T_C25_BoundedRetries ==
    last.op = "make_request" =>
        LET n == Len(last.attempts)
        IN  /\ n <= last.max_retries
            /\ last.ret # None =>
                  /\ n >= 1
                  /\ Fine(last.attempts[n])
                  /\ last.ret = Some(last.attempts[n].fetched)
                  /\ \A i \in 1..(n - 1) : ~Fine(last.attempts[i])
            /\ (\A i \in 1..n : ~Fine(last.attempts[i])) =>
                  /\ last.ret = None
                  /\ n = last.max_retries

\* a call with two attempts: the first got another status than 200 and 403,
\* the second was answered with 200
W_C25_SecondAttemptAnswered ==
    /\ last.op = "make_request"
    /\ Len(last.attempts) = 2
    /\ last.attempts[1].fetched = Response(500, FALSE)
    /\ last.ret = Some(Response(200, FALSE))

\* C26 as stated: every attempt of make_request made through a proxy ends with
\* exactly one call of mark_success or mark_failure on that proxy.
D_C26_EveryAttemptRecorded ==
    last.op = "make_request" =>
        \A i \in 1..Len(last.attempts) :
            last.attempts[i].proxy # None => Len(last.attempts[i].marked) = 1

-----------------------------------------------------------------------------
(* Properties of deduplicate_database *)

\* the step is a deduplicate_database call
DedupTaken == last'.op = "deduplicate_database"

RowsOfPhone(rows, ph) == {r \in rows : r.phone = ph}

\* the rating the sort counts for a row: a missing rating counts as 0
RatingOf(r) == IF r.rating = None THEN 0 ELSE r.rating[1]

\* C27: after deduplicate_database no two stored rows have the same phone
\* value; of the rows of a phone that had several, the one kept has the highest
\* rating among them (a missing rating is 0) and among those of that rating
\* the most recent scraped_at; the rows whose phone was unique are untouched;
\* and the returned number is the number of rows deleted.
T_C27_DedupKeepsBestPerPhone ==
    [][ DedupTaken =>
          /\ db' \subseteq db
          /\ \A ph \in {r.phone : r \in db} :
                /\ Cardinality(RowsOfPhone(db', ph)) = 1
                /\ \A kept \in RowsOfPhone(db', ph), o \in RowsOfPhone(db, ph) :
                      \/ RatingOf(o) < RatingOf(kept)
                      \/ RatingOf(o) = RatingOf(kept) /\ o.scraped_at <= kept.scraped_at
                /\ Cardinality(RowsOfPhone(db, ph)) = 1 =>
                      RowsOfPhone(db', ph) = RowsOfPhone(db, ph)
          /\ last'.removed = Cardinality(db \ db') ]_vars

\* a call that deleted two rows of the three of one phone and left the row of
\* another phone alone
W_C27_TwoOfThreeRemoved ==
    /\ last.op = "deduplicate_database"
    /\ last.removed = 2
    /\ Cardinality(db) = 2
    /\ \E r \in db : r.phone = P1plain /\ r.rating = Some(50)
    /\ \E r \in db : r.phone = P1intl

\* a call that chose between two rows without a rating by scraped_at: the row
\* of the candidate cA stayed, the older row made by hand went
W_C27_TieByScrapedAt ==
    /\ last.op = "deduplicate_database"
    /\ last.removed = 1
    /\ \E r \in db : r.unique_key = get_unique_key(cA) /\ r.rating = None
    /\ ~ \E r \in db : r.phone = P1intl /\ r.source = "Manual Entry"
    /\ \E r \in db : r.phone = P3plain

\* C28 as stated: when the rows sharing a phone include one with verified =
\* true before deduplicate_database runs, the row that survives for that phone
\* has verified = true.
D_C28_DedupKeepsVerified ==
    [][ DedupTaken =>
          \A ph \in {r.phone : r \in db} :
             (\E r \in RowsOfPhone(db, ph) : r.verified) =>
                 \A kept \in RowsOfPhone(db', ph) : kept.verified ]_vars

-----------------------------------------------------------------------------
(* Concurrent use of POST /api/electrician: the server runs each request in *)
(* a thread of its own, with its own session.  A request first looks for a *)
(* row with its phone (lines 283-288) and later adds and commits its record *)
(* (lines 308-309); the table's constraints decide at the commit.           *)

CreateNames == {"Ravi", "Sita"}
CreatePhones == {P1plain, P2plain}

\* lines 274-288: the request arrives, is validated and looks the phone up
CreateCheck(p, name, phone) ==
    /\ procs[p].pc \in {"idle", "done"}
    /\ procs' = [procs EXCEPT ![p] =
                    IF \E r \in db : r.phone = phone
                    THEN [pc |-> "done", name |-> name, phone |-> phone, status |-> 400]
                    ELSE [pc |-> "checked", name |-> name, phone |-> phone, status |-> 0]]
    /\ UNCHANGED <<db, now, last, text, phones, ppc, pm, gets, orch>>

\* lines 290-319: the record is added and committed, or the commit raises
\* and the request answers 500
CreateCommit(p) ==
    /\ procs[p].pc = "checked"
    /\ LET record == ManualRecord(procs[p].name, procs[p].phone, Surat, Gujarat, now)
           failed == UniqueViolation(record, db)
       IN  /\ db' = IF failed THEN db ELSE db \cup {WithId(record, NextRowId(db))}
           /\ procs' = [procs EXCEPT ![p].pc = "done",
                                     ![p].status = IF failed THEN 500 ELSE 200]
    /\ UNCHANGED <<now, last, text, phones, ppc, pm, gets, orch>>

CreateBegin == \E p \in Procs, n \in CreateNames, ph \in CreatePhones : CreateCheck(p, n, ph)
CreateEnd == \E p \in Procs : CreateCommit(p)

NextCreate == CreateBegin \/ CreateEnd

SpecCreate == InitStore /\ [][NextCreate]_vars

\* C29 as stated: the create endpoint never produces two records with the
\* same phone: no two stored rows have the same phone, and of two concurrent
\* create requests with the same phone at most one succeeds.
D_C29_CreateKeepsPhonesApart ==
    /\ \A r1 \in db, r2 \in db : r1.phone = r2.phone => r1 = r2
    /\ \A p \in Procs, q \in Procs :
          ( /\ p # q
            /\ procs[p].pc = "done" /\ procs[q].pc = "done"
            /\ procs[p].phone = procs[q].phone
            /\ procs[p].status = 200 /\ procs[q].status = 200 )
          => Cardinality({r \in db : r.phone = procs[p].phone}) <= 1

-----------------------------------------------------------------------------
(* src/main.py: the ScraperOrchestrator.  What scraper.scrape_city gives for *)
(* a task is an input: a ScrapeResult or an exception.  In parallel mode    *)
(* the worker threads only scrape; the main thread takes the finished tasks *)
(* in the order they complete and saves their candidates.                   *)

\* lines 178-181: the tasks (scraper, city, state), states and cities outside,
\* scrapers inside
Tasks ==
    << <<"justdial", Surat, Gujarat>>, <<"sulekha", Surat, Gujarat>>,
       <<"justdial", Kakod, UP>> >>

ScrapeResult(success, task, electricians) ==
    [ success |-> success, source |-> task[1], city |-> task[2], state |-> task[3],
      electricians |-> electricians ]

\* what scrape_city may do: a result with no, one or two candidates (cN has
\* no name: "name": null in the scraped JSON), a failed result, an exception
Scraped ==
    { [kind |-> "result", success |-> TRUE, electricians |-> <<>>],
      [kind |-> "result", success |-> TRUE, electricians |-> <<"cA">>],
      [kind |-> "result", success |-> TRUE, electricians |-> <<"cA", "cN">>],
      [kind |-> "result", success |-> FALSE, electricians |-> <<>>],
      [kind |-> "raises"] }

\* _scrape_location (lines 113-141): the result of the scraper, or a failed
\* result when it raised
scrape_location(task, scraped) ==
    IF scraped.kind = "raises" THEN ScrapeResult(FALSE, task, <<>>)
    ELSE ScrapeResult(scraped.success, task, scraped.electricians)

\* ScraperOrchestrator.run(parallel) starts (lines 219-227)
OrchStart ==
    /\ orch.pc = "off"
    /\ \E parallel \in BOOLEAN :
          orch' = [ pc |-> "running", parallel |-> parallel, pending |-> 1..Len(Tasks),
                    results |-> <<>>, summary |-> None ]
    /\ UNCHANGED <<db, now, last, procs, text, phones, ppc, pm, gets>>

\* the next task of run_sequential, a finished task of run_parallel
Ready ==
    IF orch.parallel THEN orch.pending ELSE {Min(orch.pending)}

\* lines 203-213: the except branch of run_parallel adds a failed result
AfterRaise(results, task) ==
    Append(results, ScrapeResult(FALSE, task, <<>>))

\* run_sequential lines 156-168, run_parallel lines 192-215: the task is
\* scraped, its result recorded and its candidates saved
OrchTask ==
    /\ orch.pc = "running"
    /\ orch.pending # {}
    /\ \E i \in Ready, scraped \in Scraped :
       \E result \in {scrape_location(Tasks[i], scraped)} :
       \E sess \in {RunBatch(NewSession, db, Electricians(result.electricians), 1, TRUE, now)} :
          LET saves == result.success /\ result.electricians # <<>>
              raised == saves /\ CommitRaises(sess.new, 1, db)
              recorded == Append(orch.results, result)
          IN  /\ db' = IF ~saves THEN db
                       ELSE IF raised THEN RolledBack(sess, db)
                       ELSE Committed(sess, db)
              /\ orch' =
                    IF raised /\ ~orch.parallel
                    THEN [orch EXCEPT !.pc = "raised", !.results = recorded]
                    ELSE [orch EXCEPT
                             !.pending = @ \ {i},
                             !.results = IF raised THEN AfterRaise(recorded, Tasks[i])
                                         ELSE recorded]
    /\ UNCHANGED <<now, last, procs, text, phones, ppc, pm, gets>>

\* run, lines 232-251: the summary
OrchFinish ==
    /\ orch.pc = "running"
    /\ orch.pending = {}
    /\ LET successful == Len(SelectSeq(orch.results, LAMBDA r : r.success))
       IN  orch' = [orch EXCEPT
                       !.pc = "done",
                       !.summary = Some([ total_tasks |-> Len(orch.results),
                                          successful |-> successful,
                                          failed |-> Len(orch.results) - successful ])]
    /\ UNCHANGED <<db, now, last, procs, text, phones, ppc, pm, gets>>

NextOrch == OrchStart \/ OrchTask \/ OrchFinish

SpecOrch == InitStore /\ [][NextOrch]_vars

\* the results recorded for task i
ResultsOf(i) ==
    {k \in 1..Len(orch.results) :
        /\ orch.results[k].source = Tasks[i][1]
        /\ orch.results[k].city = Tasks[i][2]
        /\ orch.results[k].state = Tasks[i][3]}

\* C30 as stated: in both modes the run records one ScrapeResult for each task
\* handled, also when the scraper or the save raised; it never ends before
\* every task was run; and its summary has successful + failed = total_tasks =
\* the number of tasks.
D_C30_OneResultPerTask ==
    /\ orch.pc # "raised"
    /\ orch.pc \in {"running", "done"} =>
          \A i \in 1..Len(Tasks) :
             Cardinality(ResultsOf(i)) = IF i \in orch.pending THEN 0 ELSE 1
    /\ orch.pc = "done" =>
          /\ orch.summary[1].successful + orch.summary[1].failed = orch.summary[1].total_tasks
          /\ orch.summary[1].total_tasks = Len(Tasks)

====
